---------------------------- MODULE Spec2Model ----------------------------
(***************************************************************************)
(* A model of artice-saver: the two serverless handlers api/add-article.js *)
(* and api/rss.xml.js, the Firestore collection "articles" they share, and *)
(* the pure function escapeXml.                                            *)
(*                                                                         *)
(* JavaScript strings are TLA+ strings (Len, \o and SubSeq act on them     *)
(* character by character).  A JavaScript value is a record [t, s]: its    *)
(* typeof-like tag and, for a string, its characters.                      *)
(***************************************************************************)
EXTENDS Integers, Sequences, FiniteSets, TLC

VARIABLES
    API_KEY,    \* process.env.ADD_ARTICLE_API_KEY (add-article.js:41)
    articles,   \* the documents of db.collection("articles")
    writes,     \* number of documents committed by add-article so far
    addReq,     \* the add-article invocation in flight and its response
    feedReq,    \* the rss.xml invocation in flight and its response
    acked,      \* ids of the documents whose add-article was answered 200
    escIn,      \* the argument of a direct escapeXml call
    escOut      \* [done, out]: the result of that call

vars == <<API_KEY, articles, writes, addReq, feedReq, acked, escIn, escOut>>

----------------------------------------------------------------------------
(* Bounds of the model.                                                    *)

\* longest generated argument of escapeXml
MaxLen == 4
\* documents add-article may commit in a behaviour
MaxWrites == 1

----------------------------------------------------------------------------
(* JavaScript values.                                                      *)

Undefined == [t |-> "undefined", s |-> ""]
Null      == [t |-> "null", s |-> ""]
Obj       == [t |-> "object", s |-> ""]
Str(s)    == [t |-> "string", s |-> s]
Num(s)    == [t |-> "number", s |-> s]

\* ToBoolean, as used by !x, x || y and x ? y : z
Truthy(v) ==
    \/ v.t = "object"
    \/ v.t = "string" /\ v.s # ""
    \/ v.t = "number" /\ v.s \notin {"0", "NaN"}

\* ToString, as used by a template literal `${v}`
ToStr(v) ==
    CASE v.t = "string"    -> v.s
      [] v.t = "number"    -> v.s
      [] v.t = "undefined" -> "undefined"
      [] v.t = "null"      -> "null"
      [] OTHER             -> "[object Object]"

\* a || b
OrElse(a, b) == IF Truthy(a) THEN a ELSE b

Min2(a, b) == IF a <= b THEN a ELSE b

----------------------------------------------------------------------------
(* escapeXml (rss.xml.js:32-40).                                           *)

\* String.prototype.replace(/c/g, rep) for a one-character pattern c
RECURSIVE ReplaceAll(_, _, _)
ReplaceAll(s, c, rep) ==
    IF s = "" THEN ""
    ELSE (IF SubSeq(s, 1, 1) = c THEN rep ELSE SubSeq(s, 1, 1))
         \o ReplaceAll(Tail(s), c, rep)

\* the five replacements with '&' done last: '&lt;' would become '&amp;lt;'
escapeXml_AmpLast(text) ==
    IF text.t # "string" THEN ""
    ELSE ReplaceAll(ReplaceAll(ReplaceAll(ReplaceAll(ReplaceAll(text.s,
            "<", "&lt;"), ">", "&gt;"), "\"", "&quot;"), "'", "&apos;"),
            "&", "&amp;")

escapeXml(text) ==
    IF text.t # "string" THEN ""
    ELSE ReplaceAll(ReplaceAll(ReplaceAll(ReplaceAll(ReplaceAll(text.s,
            "&", "&amp;"), "<", "&lt;"), ">", "&gt;"), "\"", "&quot;"),
            "'", "&apos;")

\* The characters the generated arguments are made of.
EscChars == {"&", "<", ">", "\"", "'", "a", ";"}

RECURSIVE StringsUpTo(_)
StringsUpTo(n) ==
    IF n = 0 THEN {""}
    ELSE LET S == StringsUpTo(n - 1)
         IN  S \cup {s \o c : s \in S, c \in EscChars}

EscapeInputs ==
    {Str(s) : s \in StringsUpTo(MaxLen)}
    \cup {Str("&amp;"), Str("<b>hi & bye</b>")}
    \cup {Undefined, Null, Obj, Num("7")}

NotCalled == [done |-> FALSE, out |-> ""]

\* a direct call escapeXml(escIn)
EscapeCall ==
    /\ ~escOut.done
    /\ escOut' = [done |-> TRUE, out |-> escapeXml(escIn)]
    /\ UNCHANGED <<API_KEY, articles, writes, addReq, feedReq, acked, escIn>>

----------------------------------------------------------------------------
(* The collection "articles".  A document is [id, url, title, content,     *)
(* createdAt]: id orders documents as Firestore orders their names, and    *)
(* createdAt is the server timestamp, 0 standing for a null timestamp.     *)

MaxOf(S) == IF S = {} THEN 0 ELSE CHOOSE m \in S : \A x \in S : x <= m

MaxTs(S) == MaxOf({d.createdAt : d \in S})
MaxId(S) == MaxOf({d.id : d \in S})

\* new Date(): the wall clock is past every stored timestamp
Now(S) == MaxTs(S) + 1

\* a document name not in use: Firestore's auto-id may sort anywhere
FreshIds(S) == {i \in 1..(MaxId(S) + 1) : i \notin {d.id : d \in S}}

\* the timestamps serverTimestamp() may resolve to: later than every stored
\* one, or equal to the latest (timestamps are non-decreasing, not strict)
LaterTs(S) == {MaxTs(S) + 1}
TiedTs(S)  == {t \in {MaxTs(S)} : t >= 1}

\* doc.id as text
DocIdStr(id) == "doc" \o ToString(id)

\* a document that add-article did not write: no url, title or content and
\* a null createdAt (the cases the fallbacks of rss.xml.js:68-74 provide for)
LegacyDoc ==
    [id |-> 2, url |-> Undefined, title |-> Undefined, content |-> Undefined,
     createdAt |-> 0]

----------------------------------------------------------------------------
(* add-article (add-article.js:24-66).                                     *)

CorsHeaders ==
    {<<"Access-Control-Allow-Origin", "*">>,
     <<"Access-Control-Allow-Methods", "GET, POST, OPTIONS">>,
     <<"Access-Control-Allow-Headers", "Content-Type, Authorization">>}

NoArticle ==
    [url |-> Undefined, title |-> Undefined, content |-> Undefined,
     createdAt |-> "none"]

NoResponse ==
    [statusCode |-> 0, headers |-> {}, kind |-> "none", text |-> "",
     article |-> NoArticle, sent |-> 0]

\* req.body when the request carries no body
NoBody ==
    [t |-> "null", url |-> Undefined, title |-> Undefined,
     content |-> Undefined]

Body(u, ti, c) == [t |-> "object", url |-> u, title |-> ti, content |-> c]

NoRequest == [method |-> "", authorization |-> Undefined, body |-> NoBody]

AddIdle ==
    [pc |-> "idle", req |-> NoRequest, res |-> NoResponse,
     newArticle |-> NoArticle, calls |-> 0, settled |-> "none", docId |-> 0,
     before |-> {}]

\* the method gates, lines 31-38: 204, 405, or 0 to go on
MethodGate_NoPreflight(req) ==
    IF req.method # "POST" THEN 405 ELSE 0

MethodGate(req) ==
    IF req.method = "OPTIONS" THEN 204
    ELSE IF req.method # "POST" THEN 405
    ELSE 0

\* line 42 without the !API_KEY test
Authorized_NoKeyTest(req) ==
    req.authorization = Str("Bearer " \o ToStr(API_KEY))

\* line 42, negated
Authorized(req) ==
    /\ Truthy(API_KEY)
    /\ req.authorization = Str("Bearer " \o ToStr(API_KEY))

\* lines 54-59 with the title taken as sent
NewArticle_RawTitle(body) ==
    [url |-> body.url, title |-> body.title,
     content |-> OrElse(body.content, Str("")),
     createdAt |-> "serverTimestamp"]

\* lines 54-59
NewArticle(body) ==
    [url |-> body.url,
     title |-> OrElse(body.title, Str("Sin Título")),
     content |-> OrElse(body.content, Str("")),
     createdAt |-> "serverTimestamp"]

Send(res, code, kind, text, article) ==
    [res EXCEPT !.statusCode = code, !.kind = kind, !.text = text,
                !.article = article, !.sent = @ + 1]

\* The handler up to its first await (lines 25-60): the invocation's state
\* once it has answered, thrown, or called add() and is waiting.
AddArticleSync(req) ==
    LET res  == [NoResponse EXCEPT !.headers = CorsHeaders]
        inv  == [AddIdle EXCEPT !.req = req, !.res = res,
                                !.before = articles]
        gate == MethodGate(req)
    IN  IF gate = 204
          THEN [inv EXCEPT !.pc = "done",
                           !.res = Send(res, 204, "end", "", NoArticle)]
        ELSE IF gate = 405
          THEN [inv EXCEPT !.pc = "done",
                           !.res = Send(res, 405, "send",
                                        "Method Not Allowed", NoArticle)]
        ELSE IF ~Authorized(req)
          THEN [inv EXCEPT !.pc = "done",
                           !.res = Send(res, 401, "send", "Unauthorized",
                                        NoArticle)]
        \* line 47: destructuring null or undefined throws a TypeError,
        \* outside the try block
        ELSE IF req.body.t \in {"null", "undefined"}
          THEN [inv EXCEPT !.pc = "thrown"]
        ELSE IF ~Truthy(req.body.url)
          THEN [inv EXCEPT !.pc = "done",
                           !.res = Send(res, 400, "json",
                                        "URL es requerida.", NoArticle)]
        ELSE [inv EXCEPT !.pc = "awaitAdd",
                         !.newArticle = NewArticle(req.body),
                         !.calls = @ + 1]

\* a request arrives and the handler runs to its first await
AddArticle(req) ==
    /\ addReq.pc = "idle"
    /\ addReq' = AddArticleSync(req)
    /\ UNCHANGED <<API_KEY, articles, writes, feedReq, acked, escIn, escOut>>

\* Firestore commits the document of add() (line 60)
StoreAdd(id, ts) ==
    /\ addReq.pc = "awaitAdd"
    /\ articles' = articles \cup
           {[id |-> id, url |-> addReq.newArticle.url,
             title |-> addReq.newArticle.title,
             content |-> addReq.newArticle.content, createdAt |-> ts]}
    /\ writes' = writes + 1
    /\ addReq' = [addReq EXCEPT !.pc = "resume", !.settled = "ok",
                                !.docId = id]
    /\ UNCHANGED <<API_KEY, feedReq, acked, escIn, escOut>>

\* add() rejects: nothing is committed
StoreAddFails ==
    /\ addReq.pc = "awaitAdd"
    /\ addReq' = [addReq EXCEPT !.pc = "resume", !.settled = "error"]
    /\ UNCHANGED <<API_KEY, articles, writes, feedReq, acked, escIn, escOut>>

\* lines 61-65 answering 200 whatever add() did
AddOutcome_Always200(inv) ==
    Send(inv.res, 200, "json", "Artículo añadido con éxito.", inv.newArticle)

\* lines 61-65: the response after the await
AddOutcome(inv) ==
    IF inv.settled = "ok"
    THEN Send(inv.res, 200, "json", "Artículo añadido con éxito.",
              inv.newArticle)
    ELSE Send(inv.res, 500, "json", "Fallo al añadir artículo.", NoArticle)

\* the handler resumes after the await and answers
AddArticleResume ==
    /\ addReq.pc = "resume"
    /\ addReq' = [addReq EXCEPT !.pc = "done", !.res = AddOutcome(addReq)]
    /\ acked' = IF AddOutcome(addReq).statusCode = 200
                THEN acked \cup {addReq.docId} ELSE acked
    /\ UNCHANGED <<API_KEY, articles, writes, feedReq, escIn, escOut>>

\* the invocation is over (answered, or failed with the TypeError)
AddArticleReturn ==
    /\ addReq.pc \in {"done", "thrown"}
    /\ addReq' = AddIdle
    /\ UNCHANGED <<API_KEY, articles, writes, feedReq, acked, escIn, escOut>>

----------------------------------------------------------------------------
(* rss.xml (rss.xml.js:49-111).                                            *)

\* limit(50), line 60
FeedLimit == 50

\* orderBy("createdAt", "desc"): a is returned before b.  Firestore breaks
\* ties of the ordered field by document name, in the same direction.
Before(a, b) ==
    \/ a.createdAt > b.createdAt
    \/ a.createdAt = b.createdAt /\ a.id > b.id

\* the documents of S in query order
Ordered(S) ==
    LET rank == [d \in S |-> 1 + Cardinality({e \in S : Before(e, d)})]
    IN  [i \in 1..Cardinality(S) |-> CHOOSE d \in S : rank[d] = i]

\* the query without its limit
Query_NoLimit(S) == Ordered(S)

\* the query oldest first
Query_Asc(S) ==
    LET all == Ordered(S)
        rev == [i \in 1..Len(all) |-> all[Len(all) + 1 - i]]
    IN  SubSeq(rev, 1, Min2(Len(rev), FeedLimit))

\* orderBy("createdAt", "desc").limit(50).get(), line 60
Query(S) ==
    LET all == Ordered(S)
    IN  SubSeq(all, 1, Min2(Len(all), FeedLimit))

\* Date.prototype.toUTCString of a timestamp, as text without markup
UTCString(ts) == "T" \o ToString(ts)

\* lines 68-70
PubDate(doc, now) ==
    IF doc.createdAt # 0 THEN UTCString(doc.createdAt) ELSE UTCString(now)

\* line 72
Guid(doc) == OrElse(doc.url, Str(DocIdStr(doc.id)))

\* line 74
ContentCdata(doc) ==
    IF Truthy(doc.content) THEN "<![CDATA[" \o ToStr(doc.content) \o "]]>"
    ELSE ""

\* lines 77-84: the item template (its indentation is left out)
ItemXml(title, link, guid, pubDate, description) ==
    "<item><title>" \o title \o "</title><link>" \o link
    \o "</link><guid isPermaLink=\"true\">" \o guid
    \o "</guid><pubDate>" \o pubDate
    \o "</pubDate><description>" \o description
    \o "</description></item>"

\* lines 68-84 with the title and the link interpolated without escapeXml
RenderItem_Raw(doc, now) ==
    ItemXml(ToStr(doc.title), ToStr(doc.url), escapeXml(Guid(doc)),
            PubDate(doc, now), ContentCdata(doc))

\* lines 68-84: one <item>
RenderItem(doc, now) ==
    ItemXml(escapeXml(doc.title), escapeXml(doc.url), escapeXml(Guid(doc)),
            PubDate(doc, now), ContentCdata(doc))

\* lines 62-85: rssItems
RECURSIVE RenderRange(_, _, _, _)
RenderRange(docs, lo, hi, now) ==
    IF lo > hi THEN ""
    ELSE IF lo = hi THEN RenderItem(docs[lo], now)
    ELSE LET mid == (lo + hi) \div 2
         IN  RenderRange(docs, lo, mid, now) \o RenderRange(docs, mid + 1, hi, now)

RenderItems(docs, now) == RenderRange(docs, 1, Len(docs), now)

\* lines 89-102: the document (line breaks and indentation left out)
RssFeed(host, rssItems, now) ==
    LET baseUrl == "https://" \o host
    IN  "<?xml version=\"1.0\" encoding=\"UTF-8\"?>"
        \o "<rss version=\"2.0\" xmlns:atom=\"http://www.w3.org/2005/Atom\">"
        \o "<channel><title>Mi Feed de Artículos Personal</title><link>"
        \o baseUrl \o "/api/rss.xml</link><description>"
        \o "Artículos y enlaces guardados personalmente.</description>"
        \o "<language>es-es</language><lastBuildDate>" \o UTCString(now)
        \o "</lastBuildDate><atom:link href=\"" \o baseUrl
        \o "/api/rss.xml\" rel=\"self\" type=\"application/rss+xml\" />"
        \o rssItems \o "</channel></rss>"

FeedHeaders ==
    {<<"Content-Type", "application/rss+xml; charset=utf-8">>,
     <<"Cache-Control", "s-maxage=60, stale-while-revalidate">>}

NoFeedResponse == [statusCode |-> 0, headers |-> {}, body |-> "", sent |-> 0]

FeedIdle ==
    [pc |-> "idle", host |-> "", res |-> NoFeedResponse, calls |-> 0,
     settled |-> "none", seen |-> {}, ackedAtStart |-> {}]

FeedSend(res, code, body) ==
    [res EXCEPT !.statusCode = code, !.body = body, !.sent = @ + 1]

\* a request arrives: lines 51-60, up to the await of get()
RssXml(host) ==
    /\ feedReq.pc \in {"idle", "done"}
    /\ feedReq' = [FeedIdle EXCEPT !.pc = "awaitGet", !.host = host,
                       !.res = [NoFeedResponse EXCEPT !.headers = FeedHeaders],
                       !.calls = 1, !.ackedAtStart = acked]
    /\ UNCHANGED <<API_KEY, articles, writes, addReq, acked, escIn, escOut>>

\* lines 62-105: the response once get() has resolved on the documents docs
FeedOk(inv, docs) ==
    FeedSend(inv.res, 200,
             RssFeed(inv.host, RenderItems(Query(docs), Now(docs)),
                     Now(docs)))

\* lines 106-110: the response once get() has rejected
FeedError(inv) ==
    FeedSend(inv.res, 500, "<error>Failed to generate RSS feed</error>")

\* Firestore runs the query on the collection as it is now, and the handler
\* renders and answers
RssXmlResume ==
    /\ feedReq.pc = "awaitGet"
    /\ feedReq' = [feedReq EXCEPT !.pc = "done", !.settled = "ok",
                                  !.seen = articles,
                                  !.res = FeedOk(feedReq, articles)]
    /\ UNCHANGED <<API_KEY, articles, writes, addReq, acked, escIn, escOut>>

\* get() rejects and the handler answers from its catch block
RssXmlFails ==
    /\ feedReq.pc = "awaitGet"
    /\ feedReq' = [feedReq EXCEPT !.pc = "done", !.settled = "error",
                                  !.res = FeedError(feedReq)]
    /\ UNCHANGED <<API_KEY, articles, writes, addReq, acked, escIn, escOut>>

----------------------------------------------------------------------------
(* The requests and the specifications.                                    *)

Methods == {"OPTIONS", "GET", "POST"}

\* the configured secret: unset, empty, or "k"
Keys == {Undefined, Str(""), Str("k")}

AuthHeaders ==
    {Undefined, Str("Bearer k"), Str("Bearer undefined"), Str("Bearer "),
     Str("Bearer x")}

Urls     == {Undefined, Str(""), Str("u?a&b")}
Titles   == {Undefined, Str(""), Str("<b>hi & bye</b>")}
Contents == {Undefined, Str(""), Str("<b>hi & bye</b>"), Str("a]]><x>")}

Bodies ==
    {NoBody} \cup {Body(u, ti, c) : u \in Urls, ti \in Titles, c \in Contents}

Requests ==
    {[method |-> m, authorization |-> a, body |-> b] :
        m \in Methods, a \in AuthHeaders, b \in Bodies}

Hosts == {"h.app"}

Init ==
    /\ API_KEY \in Keys
    /\ articles \in {{}, {LegacyDoc}}
    /\ writes = 0
    /\ addReq = AddIdle
    /\ feedReq = FeedIdle
    /\ acked = {}
    /\ escIn = Undefined
    /\ escOut = NotCalled

Next ==
    \/ writes < MaxWrites /\ \E req \in Requests : AddArticle(req)
    \/ \E id \in {MaxId(articles) + 1}, ts \in LaterTs(articles) :
           StoreAdd(id, ts)
    \/ StoreAddFails
    \/ AddArticleResume
    \/ AddArticleReturn
    \/ \E host \in Hosts : RssXml(host)
    \/ RssXmlResume
    \/ RssXmlFails

\* Both handlers on a collection that starts empty or with one legacy
\* document, under every request of Requests.
Spec == Init /\ [][Next]_vars

\* the collection as earlier add-article requests left it: n documents,
\* all acknowledged, with distinct or with equal timestamps
EarlierDocs(n, tied) ==
    {[id |-> i + 1, url |-> Str("u" \o ToString(i)),
      title |-> Str("Sin Título"), content |-> Str(""),
      createdAt |-> IF tied THEN 1 ELSE i] : i \in 1..n}

FeedInitSizes == {0, FeedLimit - 1, FeedLimit}

\* the requests of SpecFeed: the w-th article has a url of its own, and is
\* sent with the secret or with no credential
FeedRequests(w) ==
    {[method |-> "POST", authorization |-> a,
      body |-> Body(Str("n" \o ToString(w) \o "&"), Undefined, Undefined)] :
        a \in {Str("Bearer k"), Undefined}}

InitFeed ==
    /\ API_KEY = Str("k")
    /\ \E n \in FeedInitSizes, tied \in BOOLEAN :
           articles = EarlierDocs(n, tied)
    /\ writes = 0
    /\ addReq = AddIdle
    /\ feedReq = FeedIdle
    /\ acked = {d.id : d \in articles}
    /\ escIn = Undefined
    /\ escOut = NotCalled

NextFeed ==
    \/ writes < MaxWrites
       /\ \E req \in FeedRequests(writes + 1) : AddArticle(req)
    \/ \E id \in FreshIds(articles),
          ts \in LaterTs(articles) \cup TiedTs(articles) : StoreAdd(id, ts)
    \/ StoreAddFails
    \/ AddArticleResume
    \/ AddArticleReturn
    \/ \E host \in Hosts : RssXml(host)
    \/ RssXmlResume
    \/ RssXmlFails

\* Both handlers on a collection of about FeedLimit documents, where new
\* documents may tie with the latest timestamp and take any free name.
SpecFeed == InitFeed /\ [][NextFeed]_vars

InitEscape ==
    /\ API_KEY = Undefined
    /\ articles = {}
    /\ writes = 0
    /\ addReq = AddIdle
    /\ feedReq = FeedIdle
    /\ acked = {}
    /\ escIn \in EscapeInputs
    /\ escOut = NotCalled

NextEscape == EscapeCall

\* escapeXml alone, on every argument of EscapeInputs.
SpecEscape == InitEscape /\ [][NextEscape]_vars

----------------------------------------------------------------------------
(* Reading a response back: what a client of the endpoints sees.           *)

\* the characters a..b of s that exist
Slice(s, a, b) ==
    IF a < 1 \/ a > Min2(b, Len(s)) THEN "" ELSE SubSeq(s, a, Min2(b, Len(s)))

\* The first index >= i at which pat occurs in s, or 0, looked for in the
\* next w places and then in windows twice as wide.
RECURSIVE FindWithin(_, _, _, _)
FindWithin(s, pat, i, w) ==
    LET n  == Len(s) - Len(pat) + 1
        hi == Min2(i + w - 1, n)
        At(j) == SubSeq(s, j, j + Len(pat) - 1) = pat
    IN  IF i > n THEN 0
        ELSE IF \E j \in i..hi : At(j)
          THEN CHOOSE j \in i..hi : At(j) /\ \A k \in i..(j - 1) : ~At(k)
        ELSE FindWithin(s, pat, hi + 1, w + w)

\* the first index >= i at which pat occurs in s, or 0
FindFrom(s, pat, i) == FindWithin(s, pat, i, Len(pat) + Len(pat))

\* The markup of a document as an XML tokenizer meets it: the text of each
\* tag, in order.  Character data is passed over, and so is a CDATA section,
\* which ends at the first "]]>".
RECURSIVE XmlTags(_, _)
XmlTags(s, i) ==
    LET a == FindFrom(s, "<", i)
    IN  IF a = 0 THEN <<>>
        ELSE IF Slice(s, a, a + 8) = "<![CDATA["
          THEN IF FindFrom(s, "]]>", a + 9) = 0 THEN <<"<![CDATA[">>
               ELSE XmlTags(s, FindFrom(s, "]]>", a + 9) + 3)
        ELSE IF FindFrom(s, ">", a) = 0 THEN <<"<">>
        ELSE <<Slice(s, a + 1, FindFrom(s, ">", a) - 1)>>
             \o XmlTags(s, FindFrom(s, ">", a) + 1)

\* the text between the first open at or after i and the close that follows
Element(s, open, close, i) ==
    LET a == IF i = 0 THEN 0 ELSE FindFrom(s, open, i)
        b == IF a = 0 THEN 0 ELSE FindFrom(s, close, a + Len(open))
    IN  IF b = 0 THEN [text |-> "", end |-> 0]
        ELSE [text |-> SubSeq(s, a + Len(open), b - 1),
              end |-> b + Len(close)]

\* The <item> elements of a feed, in order, each as the texts of its five
\* children.
RECURSIVE FeedItems(_, _)
FeedItems(s, i) ==
    LET a == FindFrom(s, "<item>", i)
        t == Element(s, "<title>", "</title>", a)
        l == Element(s, "<link>", "</link>", t.end)
        g == Element(s, "<guid isPermaLink=\"true\">", "</guid>", l.end)
        p == Element(s, "<pubDate>", "</pubDate>", g.end)
        d == Element(s, "<description>", "</description>", p.end)
    IN  IF a = 0 THEN <<>>
        ELSE <<[title |-> t.text, link |-> l.text, guid |-> g.text,
                pubDate |-> p.text, description |-> d.text]>>
             \o (IF d.end = 0 THEN <<>> ELSE FeedItems(s, d.end))

----------------------------------------------------------------------------
(* C7: escapeXml against the reference operator.                           *)

Entity(c) ==
    CASE c = "&"  -> "&amp;"
      [] c = "<"  -> "&lt;"
      [] c = ">"  -> "&gt;"
      [] c = "\"" -> "&quot;"
      [] c = "'"  -> "&apos;"
      [] OTHER    -> c

Entities == {"&amp;", "&lt;", "&gt;", "&quot;", "&apos;"}

\* the reference: every character replaced by its entity, in one pass
RECURSIVE RefEscapeStr(_)
RefEscapeStr(s) ==
    IF s = "" THEN ""
    ELSE Entity(SubSeq(s, 1, 1)) \o RefEscapeStr(Tail(s))

RefEscape(v) == IF v.t = "string" THEN RefEscapeStr(v.s) ELSE ""

\* C7: escapeXml returns "" for every non-string and, for a string, the
\* one-pass entity replacement of its characters; so its result holds none of
\* < > " ' and every & in it starts one of the five entities.
C7_EscapeXmlIsReference ==
    escOut.done =>
        /\ escOut.out = RefEscape(escIn)
        /\ escIn.t # "string" => escOut.out = ""
        /\ \A i \in 1..Len(escOut.out) :
              LET c == SubSeq(escOut.out, i, i)
              IN  /\ c \notin {"<", ">", "\"", "'"}
                  /\ c = "&" =>
                        \E e \in Entities :
                            Slice(escOut.out, i, i + Len(e) - 1) = e

\* an argument with an ampersand after a character whose entity holds one
C7_Witness ==
    /\ escOut.done
    /\ escIn = Str("<&>\"")
    /\ escOut.out = "&lt;&amp;&gt;&quot;"

----------------------------------------------------------------------------
(* add-article: the gates (C1, C2, C5).                                    *)

\* the invocation has run its synchronous part
AddStarted == addReq.pc # "idle"

\* the Authorization header is exactly "Bearer " followed by a configured,
\* non-empty secret
GoodCredential ==
    /\ API_KEY.t = "string"
    /\ API_KEY.s # ""
    /\ addReq.req.authorization.t = "string"
    /\ addReq.req.authorization.s = "Bearer " \o API_KEY.s

\* this invocation has written nothing
NothingWritten ==
    /\ articles = addReq.before
    /\ addReq.calls = 0
    /\ addReq.docId = 0

\* C1: a POST whose Authorization header is not "Bearer " + secret (or with
\* no secret configured) is answered 401, whatever its body, and writes no
\* document.
C1_BadCredentialIs401 ==
    (AddStarted /\ addReq.req.method = "POST" /\ ~GoodCredential) =>
        /\ addReq.pc = "done"
        /\ addReq.res.statusCode = 401
        /\ addReq.res.sent = 1
        /\ NothingWritten

\* the secret is unset and the header is the text "Bearer undefined"
C1_Witness ==
    /\ addReq.pc = "done"
    /\ addReq.req.method = "POST"
    /\ API_KEY = Undefined
    /\ addReq.req.authorization = Str("Bearer undefined")
    /\ addReq.req.body.url = Str("u?a&b")
    /\ addReq.res.statusCode = 401
    /\ articles = addReq.before

\* the request carries no url: it has no body, or its body has no url
NoUrl == addReq.req.body.t = "null" \/ addReq.req.body.url = Undefined

\* C2: a POST with the valid bearer token and no url is answered 400 with
\* the JSON error payload and writes no document.
C2_MissingUrlIs400 ==
    (AddStarted /\ addReq.req.method = "POST" /\ GoodCredential /\ NoUrl) =>
        /\ addReq.pc = "done"
        /\ addReq.res.statusCode = 400
        /\ addReq.res.kind = "json"
        /\ addReq.res.text = "URL es requerida."
        /\ NothingWritten

\* C5: the gates apply in the order preflight, method, credential, url: an
\* OPTIONS request gets an empty 204 and any other non-POST request 405
\* whatever its credential; a POST with a bad credential gets 401 whatever
\* its body; 400 is sent only to a POST with a good credential, and to each
\* one whose body lacks url.  None of the four outcomes writes a document,
\* and each carries the three cross-origin headers.
C5_GateOrder ==
    AddStarted =>
        /\ addReq.req.method = "OPTIONS" =>
              /\ addReq.pc = "done"
              /\ addReq.res.statusCode = 204
              /\ addReq.res.kind = "end"
              /\ addReq.res.text = ""
        /\ addReq.req.method \notin {"OPTIONS", "POST"} =>
              addReq.pc = "done" /\ addReq.res.statusCode = 405
        /\ (addReq.req.method = "POST" /\ ~GoodCredential) =>
              addReq.pc = "done" /\ addReq.res.statusCode = 401
        /\ addReq.res.statusCode = 400 =>
              /\ addReq.req.method = "POST"
              /\ GoodCredential
              /\ ~Truthy(addReq.req.body.url)
        /\ (addReq.req.method = "POST" /\ GoodCredential
            /\ addReq.req.body.t = "object"
            /\ addReq.req.body.url = Undefined) =>
              addReq.pc = "done" /\ addReq.res.statusCode = 400
        /\ addReq.res.statusCode \in {204, 405, 401, 400} =>
              /\ NothingWritten
              /\ addReq.res.sent = 1
              /\ CorsHeaders \subseteq addReq.res.headers

\* a request that fails the method, credential and url gates at once
C5_Witness ==
    /\ addReq.pc = "done"
    /\ addReq.req.method = "GET"
    /\ API_KEY = Str("k")
    /\ addReq.req.authorization = Str("Bearer x")
    /\ addReq.req.body.t = "object"
    /\ addReq.req.body.url = Undefined
    /\ addReq.res.statusCode = 405
    /\ CorsHeaders \subseteq addReq.res.headers

----------------------------------------------------------------------------
(* add-article: the write and its outcome (C3, C4).                        *)

\* the store has committed this invocation's document
WriteSucceeded == addReq.pc \in {"resume", "done"} /\ addReq.settled = "ok"

\* the documents this invocation added to the collection
Added == articles \ addReq.before

\* Exactly one document was appended and the earlier ones are unchanged; it
\* has the request's url, the given title and content; and once the
\* response is sent it is a 200 echoing those three fields.
OneRecordWritten(title, content) ==
    /\ addReq.before \subseteq articles
    /\ Cardinality(Added) = 1
    /\ \A d \in Added :
          /\ d.id = addReq.docId
          /\ d.url = addReq.req.body.url
          /\ d.title = title
          /\ d.content = content
          /\ d.createdAt >= 1
          /\ addReq.pc = "done" =>
                /\ addReq.res.statusCode = 200
                /\ addReq.res.kind = "json"
                /\ addReq.res.sent = 1
                /\ addReq.res.article.url = d.url
                /\ addReq.res.article.title = d.title
                /\ addReq.res.article.content = d.content

\* C3 as stated: after a successful write the stored title is the request's
\* title, or 'Sin Título' when the title is absent, and the stored content
\* is the request's content, or "" when absent.
C3_DefaultsWhenAbsent ==
    WriteSucceeded =>
        OneRecordWritten(
            IF addReq.req.body.title = Undefined THEN Str("Sin Título")
            ELSE addReq.req.body.title,
            IF addReq.req.body.content = Undefined THEN Str("")
            ELSE addReq.req.body.content)

\* C3 as amended: the placeholder replaces a title that is absent or falsy
\* (the empty string included), and "" replaces a content that is absent or
\* falsy.
C3_DefaultsWhenFalsy ==
    WriteSucceeded =>
        OneRecordWritten(
            IF Truthy(addReq.req.body.title) THEN addReq.req.body.title
            ELSE Str("Sin Título"),
            IF Truthy(addReq.req.body.content) THEN addReq.req.body.content
            ELSE Str(""))

\* the spec's example: a body holding only a url, added to a collection that
\* already holds a document
C3_Witness ==
    /\ addReq.pc = "done"
    /\ addReq.req.body = Body(Str("u?a&b"), Undefined, Undefined)
    /\ addReq.res.statusCode = 200
    /\ addReq.res.article.title = Str("Sin Título")
    /\ addReq.res.article.content = Str("")
    /\ addReq.before = {LegacyDoc}
    /\ Cardinality(articles) = 2

\* C4: a store error ends the request: one store call, one response, which
\* is 500 with the endpoint's error body (JSON for add-article, the XML stub
\* with the RSS content type for rss.xml).  add-article answers 200 only
\* after the write succeeded, and a request answered 500 left no document.
C4_StoreErrorIsTerminal ==
    /\ addReq.calls <= 1 /\ addReq.res.sent <= 1
    /\ feedReq.calls <= 1 /\ feedReq.res.sent <= 1
    /\ (addReq.pc = "done" /\ addReq.settled = "error") =>
          /\ addReq.res.statusCode = 500
          /\ addReq.res.kind = "json"
          /\ addReq.res.text = "Fallo al añadir artículo."
          /\ addReq.res.sent = 1
          /\ addReq.calls = 1
    /\ addReq.res.statusCode = 500 =>
          articles = addReq.before /\ addReq.docId = 0
    /\ addReq.res.statusCode = 200 =>
          /\ addReq.settled = "ok"
          /\ \E d \in Added : d.id = addReq.docId
    /\ (feedReq.pc = "done" /\ feedReq.settled = "error") =>
          /\ feedReq.res.statusCode = 500
          /\ feedReq.res.body = "<error>Failed to generate RSS feed</error>"
          /\ <<"Content-Type", "application/rss+xml; charset=utf-8">>
                \in feedReq.res.headers
          /\ feedReq.res.sent = 1
          /\ feedReq.calls = 1

\* both endpoints have answered a store error
C4_Witness ==
    /\ addReq.pc = "done"
    /\ addReq.settled = "error"
    /\ addReq.res.statusCode = 500
    /\ articles = addReq.before
    /\ feedReq.pc = "done"
    /\ feedReq.settled = "error"
    /\ feedReq.res.statusCode = 500

----------------------------------------------------------------------------
(* rss.xml: what an item holds (C8) and the document's structure (C9).     *)

\* the feed request was answered from a query that resolved
FeedDone == feedReq.pc = "done" /\ feedReq.settled = "ok"

\* C8: in a feed, the title, link and guid of the item of each returned
\* record are escapeXml of the record's title, url and guid (the url, or the
\* document id when there is no url), and its description is the content,
\* unmodified, inside one CDATA section, or empty when there is no content.
C8_ItemFields ==
    FeedDone =>
        LET items == FeedItems(feedReq.res.body, 1)
            docs  == Query(feedReq.seen)
        IN  /\ feedReq.res.statusCode = 200
            /\ Len(items) = Len(docs)
            /\ \A k \in 1..Len(docs) :
                  /\ items[k].title = escapeXml(docs[k].title)
                  /\ items[k].link = escapeXml(docs[k].url)
                  /\ items[k].guid =
                        IF Truthy(docs[k].url) THEN escapeXml(docs[k].url)
                        ELSE escapeXml(Str(DocIdStr(docs[k].id)))
                  /\ items[k].description =
                        IF Truthy(docs[k].content)
                        THEN "<![CDATA[" \o docs[k].content.s \o "]]>"
                        ELSE ""

\* a feed of two items: one with the same string escaped in its title and
\* verbatim in its description, one of a document with no url, title or
\* content
C8_Witness ==
    /\ FeedDone
    /\ LET items == FeedItems(feedReq.res.body, 1)
       IN  /\ Len(items) = 2
           /\ items[1].title = "&lt;b&gt;hi &amp; bye&lt;/b&gt;"
           /\ items[1].link = "u?a&amp;b"
           /\ items[1].guid = "u?a&amp;b"
           /\ items[1].description = "<![CDATA[<b>hi & bye</b>]]>"
           /\ items[2].title = ""
           /\ items[2].guid = "doc2"
           /\ items[2].description = ""

\* the tags of the channel before its items
ChannelOpenTags(host) ==
    <<"?xml version=\"1.0\" encoding=\"UTF-8\"?",
      "rss version=\"2.0\" xmlns:atom=\"http://www.w3.org/2005/Atom\"",
      "channel", "title", "/title", "link", "/link", "description",
      "/description", "language", "/language", "lastBuildDate",
      "/lastBuildDate",
      "atom:link href=\"https://" \o host
          \o "/api/rss.xml\" rel=\"self\" type=\"application/rss+xml\" /">>

\* the tags of one well-formed item
ItemTags ==
    <<"item", "title", "/title", "link", "/link",
      "guid isPermaLink=\"true\"", "/guid", "pubDate", "/pubDate",
      "description", "/description", "/item">>

RECURSIVE Repeat(_, _)
Repeat(seq, n) == IF n = 0 THEN <<>> ELSE seq \o Repeat(seq, n - 1)

\* C9: the markup of a feed is the channel's, then per returned record one
\* item with one title, link, guid, pubDate and description, and nothing
\* else: no stored title, url or content adds or closes an element.
C9_StructureIsFixed ==
    FeedDone =>
        XmlTags(feedReq.res.body, 1) =
            ChannelOpenTags(feedReq.host)
            \o Repeat(ItemTags, Min2(Cardinality(feedReq.seen), FeedLimit))
            \o <<"/channel", "/rss">>

----------------------------------------------------------------------------
(* rss.xml: which records a feed holds (C6, C10).  In SpecFeed every       *)
(* document has a url of its own, so a link names one record.              *)

\* the links of the items of the feed
ShownLinks ==
    LET items == FeedItems(feedReq.res.body, 1)
    IN  {items[k].link : k \in 1..Len(items)}

\* C6: a feed answered from N stored records is a 200 with min(N, 50)
\* items; they are distinct records, in order of non-increasing creation
\* time, and no record left out is more recent than a record shown.
C6_NewestFiftyInOrder ==
    FeedDone =>
        LET items == FeedItems(feedReq.res.body, 1)
            shown == {items[k].link : k \in 1..Len(items)}
            pairs == {<<escapeXml(d.url), UTCString(d.createdAt)>> :
                         d \in feedReq.seen}
            times == {d.createdAt : d \in feedReq.seen}
            TsOf(k) == CHOOSE t \in times : UTCString(t) = items[k].pubDate
        IN  /\ feedReq.res.statusCode = 200
            /\ Len(items) = Min2(Cardinality(feedReq.seen), FeedLimit)
            /\ Cardinality(shown) = Len(items)
            /\ \A k \in 1..Len(items) :
                  <<items[k].link, items[k].pubDate>> \in pairs
            /\ \A k \in 1..(Len(items) - 1) : TsOf(k) >= TsOf(k + 1)
            /\ \A d \in feedReq.seen :
                  escapeXml(d.url) \notin shown =>
                      d.createdAt <= TsOf(Len(items))

\* a feed cut to FeedLimit items out of more records
C6_Witness ==
    /\ FeedDone
    /\ Cardinality(feedReq.seen) > FeedLimit
    /\ Len(FeedItems(feedReq.res.body, 1)) = FeedLimit

\* the add-article invocation has committed document id and not yet answered
PendingAck(id) ==
    addReq.pc = "resume" /\ addReq.settled = "ok" /\ addReq.docId = id

\* C10 as stated: a feed started after the 200 for a record shows it while
\* fewer than 50 records have a later creation time, and every item shown
\* is of a record whose add-article request was answered 200.
C10_ReadAfterWrite ==
    FeedDone =>
        LET shown == ShownLinks
        IN  /\ \A d \in feedReq.seen :
                  (/\ d.id \in feedReq.ackedAtStart
                   /\ Cardinality({q \in feedReq.seen :
                          q.createdAt > d.createdAt}) < FeedLimit)
                  => escapeXml(d.url) \in shown
            /\ shown \subseteq
                  {escapeXml(d.url) :
                      d \in {q \in feedReq.seen : q.id \in acked}}

\* C10 as amended: a feed started after the 200 for a record shows it while
\* fewer than 50 other records have a later or equal creation time; every
\* item shown is of a record that add-article committed, whose request was
\* answered 200 or is about to be (the feed may be built between the commit
\* and the 200); and no committed record belongs to a request answered
\* otherwise.
C10_ReadAfterWriteAmended ==
    /\ \A d \in articles : d.id \in acked \/ PendingAck(d.id)
    /\ (addReq.pc = "done" /\ addReq.docId # 0) =>
          addReq.res.statusCode = 200 /\ addReq.docId \in acked
    /\ FeedDone =>
        LET shown == ShownLinks
        IN  /\ \A d \in feedReq.seen :
                  (/\ d.id \in feedReq.ackedAtStart
                   /\ Cardinality({q \in feedReq.seen \ {d} :
                          q.createdAt >= d.createdAt}) < FeedLimit)
                  => escapeXml(d.url) \in shown
            /\ shown \subseteq
                  {escapeXml(d.url) :
                      d \in {q \in feedReq.seen :
                                q.id \in acked \/ PendingAck(q.id)}}

\* a feed of more than FeedLimit records, started after the 200 for the
\* first new article, that shows it
C10_Witness ==
    /\ FeedDone
    /\ Cardinality(feedReq.seen) > FeedLimit
    /\ \E d \in feedReq.seen :
          /\ d.url = Str("n1&")
          /\ d.id \in feedReq.ackedAtStart
          /\ d.id \notin {q.id : q \in EarlierDocs(FeedLimit, TRUE)}
    /\ "n1&amp;" \in ShownLinks
    /\ addReq.pc = "idle"

============================================================================
